---------------------------- MODULE Spec2Model ----------------------------
(* A model of app3.py: the order-file -> invoice-file converter.            *)
(*                                                                          *)
(* Text.  A Python str is modelled as a sequence of characters, and a       *)
(* character as a one-token TLA+ string.  ASCII characters stand for        *)
(* themselves.  Every Hangul syllable of the source is written as one       *)
(* token, its romanisation (initial + medial + final jamo, the silent       *)
(* initial written "x"), so "주문번호" is <<"ju","mun","beon","ho">>; the     *)
(* middle dot is "mid".  The renaming is one-to-one on the characters of    *)
(* the source, every Hangul token has two letters or more, and so           *)
(* equality, containment and splitting of the modelled strings are those    *)
(* of the Python strings.                                                   *)
(*                                                                          *)
(* Tables.  A pandas DataFrame is [columns |-> sequence of headers,         *)
(* rows |-> sequence of rows], a row being a sequence of cells, one per     *)
(* column, and the index of a DataFrame that read_excel or the code builds  *)
(* being 0..n-1.  read_excel never returns two columns of one name.  A cell *)
(* is [k, s]: k = "str" for a text cell whose text is s, "num" for a        *)
(* number whose Python str() is s, "nan" for a missing cell.                *)
EXTENDS Integers, Sequences, FiniteSets, TLC

VARIABLES
    fn,               \* the function the harness has applied, or "idle"
    args,             \* the inputs of that function
    ret,              \* what it returned
    template_upload,  \* the uploaded template's header row, or None
    uploaded_files,   \* the uploaded order files, in upload order
    pc,               \* the batch driver's position
    k,                \* the number of files the loop has finished
    platform,         \* the loop's platform for the current file
    all_out_rows,     \* the loop's list of per-file output tables
    report_rows,      \* the loop's list of per-file report rows
    merged_out,       \* the merged table, once pd.concat has run
    shown             \* what the page shows: the set of widgets rendered

vars == <<fn, args, ret, template_upload, uploaded_files, pc, k, platform,
          all_out_rows, report_rows, merged_out, shown>>

harness == <<fn, args, ret>>
driver == <<template_upload, uploaded_files, pc, k, platform,
            all_out_rows, report_rows, merged_out, shown>>

-----------------------------------------------------------------------------
(* Python values.                                                           *)

\* Python's None where a str may stand: a one-token sequence whose token is
\* no character.
None == <<"<None>">>

Range(s) == {s[i] : i \in 1..Len(s)}

\* The strings over `alphabet` of length at most n.
StringsUpTo(alphabet, n) == UNION {[1..m -> alphabet] : m \in 0..n}

\* Python's whitespace (str.strip, str.split and the regex class \s).
IsSpace(c) == c \in {" ", "\t", "\n"}

UpperCase == <<"A","B","C","D","E","F","G","H","I","J","K","L","M",
               "N","O","P","Q","R","S","T","U","V","W","X","Y","Z">>
LowerCase == <<"a","b","c","d","e","f","g","h","i","j","k","l","m",
               "n","o","p","q","r","s","t","u","v","w","x","y","z">>

\* str.lower, character by character (Hangul and punctuation have no case).
LowerChar(c) ==
    IF \E i \in 1..26 : UpperCase[i] = c
    THEN LowerCase[CHOOSE i \in 1..26 : UpperCase[i] = c]
    ELSE c

lower(s) == [i \in 1..Len(s) |-> LowerChar(s[i])]

RECURSIVE lstrip(_)
lstrip(s) == IF s # <<>> /\ IsSpace(Head(s)) THEN lstrip(Tail(s)) ELSE s

RECURSIVE rstrip(_)
rstrip(s) ==
    IF s # <<>> /\ IsSpace(s[Len(s)]) THEN rstrip(SubSeq(s, 1, Len(s) - 1)) ELSE s

\* str.strip()
strip(s) == rstrip(lstrip(s))

\* re.sub(pattern, "", s) for a pattern that is a character class (or a run
\* of one): every character of the class is removed.
RemoveChars(s, class) == SelectSeq(s, LAMBDA c : c \notin class)

\* `a in b` for two str: a is a contiguous part of b ("" is in every str).
Contains(b, a) ==
    \E i \in 0..(Len(b) - Len(a)) : SubSeq(b, i + 1, i + Len(a)) = a

-----------------------------------------------------------------------------
(* norm: the header normaliser.                                             *)

WhitespaceChars == {" ", "\t", "\n"}

\* The class [()\-_/.,·:] of norm's second re.sub.
PunctChars == {"(", ")", "-", "_", "/", ".", ",", "mid", ":"}

\* norm without its first re.sub (line 54): inner whitespace is kept.
norm_KeepsInnerSpace(s) ==
    IF s = None THEN <<>> ELSE RemoveChars(lower(strip(s)), PunctChars)

norm(s) ==
    IF s = None THEN <<>>
    ELSE RemoveChars(RemoveChars(lower(strip(s)), WhitespaceChars), PunctChars)

-----------------------------------------------------------------------------
(* find_col: the column resolver.                                           *)

\* norm_cols[key] = c on the dict as the sequence of its (key, value) pairs:
\* a new key goes last, a key the dict has keeps its place and takes the
\* new value.
DictSet(items, key, c) ==
    IF \E i \in 1..Len(items) : items[i][1] = key
    THEN [i \in 1..Len(items) |-> IF items[i][1] = key THEN <<key, c>> ELSE items[i]]
    ELSE Append(items, <<key, c>>)

\* norm_cols = {norm(c): c for c in df.columns}: a normal form stands where
\* it was first inserted and holds the last header that has it.
RECURSIVE norm_cols(_)
norm_cols(columns) ==
    IF columns = <<>> THEN <<>>
    ELSE DictSet(norm_cols(SubSeq(columns, 1, Len(columns) - 1)),
                 norm(columns[Len(columns)]), columns[Len(columns)])

\* Python's truth of a str: the empty string is false.
Truthy(s) == s # <<>>

\* Pass 2's test of one normalised header against one normalised candidate.
PartialMatch(df_norm, nc) ==
    Truthy(nc) /\ (Contains(df_norm, nc) \/ Contains(nc, df_norm))

\* The (header, candidate) pairs that pass 2 visits, header first.
Earliest(hits) ==
    CHOOSE h \in hits : \A g \in hits : h[1] < g[1] \/ (h[1] = g[1] /\ h[2] <= g[2])

\* Pass 2 (lines 69-73) over the dict's items and the candidates' normal
\* forms: the first pair that matches, or None.
PartialPass(items, ncs) ==
    LET hits == {h \in (1..Len(items)) \X (1..Len(ncs)) :
                    PartialMatch(items[h[1]][1], ncs[h[2]])}
    IN  IF hits = {} THEN None ELSE items[Earliest(hits)[1]][2]

\* Pass 1 (lines 63-66), then pass 2.
ExactPass(items, ncs) ==
    LET exact == {j \in 1..Len(ncs) : \E i \in 1..Len(items) : items[i][1] = ncs[j]}
    IN  IF exact = {} THEN PartialPass(items, ncs)
        ELSE LET j0 == CHOOSE j \in exact : \A j2 \in exact : j <= j2
             IN  items[CHOOSE i \in 1..Len(items) : items[i][1] = ncs[j0]][2]

NormAll(candidates) == [j \in 1..Len(candidates) |-> norm(candidates[j])]

\* find_col without pass 1 (lines 63-66): the partial pass alone decides.
find_col_PartialOnly(df, candidates) ==
    PartialPass(norm_cols(df.columns), NormAll(candidates))

find_col(df, candidates) ==
    ExactPass(norm_cols(df.columns), NormAll(candidates))

-----------------------------------------------------------------------------
(* Cells, clean_series and dedupe_merge_text.                               *)

Str(s) == [k |-> "str", s |-> s]
Num(s) == [k |-> "num", s |-> s]
NaN == [k |-> "nan", s |-> <<>>]

\* The empty string as a cell.
Blank == Str(<<>>)

\* str(x) of a cell's value: Series.astype(str), one cell.
astype_str(cell) == IF cell.k = "nan" THEN <<"n", "a", "n">> ELSE cell.s

\* clean_series on one cell: astype(str), fillna(""), the whole values
\* "nan" and "None" replaced by "", then str.strip().
clean_cell(cell) ==
    LET t == astype_str(cell)
    IN  Str(strip(IF t \in {<<"n", "a", "n">>, <<"N", "o", "n", "e">>} THEN <<>> ELSE t))

\* clean_series keeps the series' length and index.
clean_series(series) == [i \in 1..Len(series) |-> clean_cell(series[i])]

\* The first whitespace-free run of s, s having no leading whitespace.
RECURSIVE FirstToken(_)
FirstToken(s) ==
    IF s = <<>> \/ IsSpace(Head(s)) THEN <<>>
    ELSE <<Head(s)>> \o FirstToken(Tail(s))

\* str.split(): the maximal whitespace-free runs, in order.
RECURSIVE split(_)
split(s) ==
    LET t == lstrip(s)
    IN  IF t = <<>> THEN <<>>
        ELSE LET w == FirstToken(t)
             IN  <<w>> \o split(SubSeq(t, Len(w) + 1, Len(t)))

\* " ".join(tokens)
RECURSIVE join(_)
join(tokens) ==
    IF tokens = <<>> THEN <<>>
    ELSE IF Len(tokens) = 1 THEN tokens[1]
    ELSE tokens[1] \o <<" ">> \o join(Tail(tokens))

\* merge_one's loop: the tokens not seen before, in order.
RECURSIVE UniqueTokens(_, _)
UniqueTokens(tokens, seen) ==
    IF tokens = <<>> THEN <<>>
    ELSE IF Head(tokens) \in seen THEN UniqueTokens(Tail(tokens), seen)
    ELSE <<Head(tokens)>> \o UniqueTokens(Tail(tokens), seen \cup {Head(tokens)})

\* merge_one without its `seen` test (line 303): every token is appended.
merge_one_KeepsRepeats(x0, y0) ==
    LET x == strip(x0)
        y == strip(y0)
    IN  IF ~Truthy(x) /\ ~Truthy(y) THEN <<>>
        ELSE IF ~Truthy(x) THEN y
        ELSE IF ~Truthy(y) THEN x
        ELSE IF x = y THEN x
        ELSE IF Contains(y, x) THEN y
        ELSE IF Contains(x, y) THEN x
        ELSE join(split(x \o <<" ">> \o y))

merge_one(x0, y0) ==
    LET x == strip(x0)
        y == strip(y0)
    IN  IF ~Truthy(x) /\ ~Truthy(y) THEN <<>>
        ELSE IF ~Truthy(x) THEN y
        ELSE IF ~Truthy(y) THEN x
        ELSE IF x = y THEN x
        ELSE IF Contains(y, x) THEN y
        ELSE IF Contains(x, y) THEN x
        ELSE join(UniqueTokens(split(x \o <<" ">> \o y), {}))

Min(m, n) == IF m <= n THEN m ELSE n

\* zip(a.tolist(), b.tolist()) stops at the shorter list; the result is a new
\* series with the index 0..n-1.
dedupe_merge_text(a, b) ==
    LET ca == clean_series(a)
        cb == clean_series(b)
    IN  [i \in 1..Min(Len(ca), Len(cb)) |-> Str(merge_one(ca[i].s, cb[i].s))]

-----------------------------------------------------------------------------
(* The program's tables: the default template, the platform signatures and  *)
(* the candidate headers of every invoice column.                           *)

DEFAULT_TEMPLATE_COLUMNS ==
    <<<<"go","gaeg","ju","mun","beon","ho">>,
      <<"jib","ha","xye","jeong","xil">>,
      <<"pum","mog","ko","deu">>,
      <<"pum","mog","myeong">>,
      <<"gi","ta","1">>,
      <<"gi","ta","2">>,
      <<"nae","pum","su","ryang">>,
      <<"bag","seu","su","ryang">>,
      <<"bad","neun","bun","seong","myeong">>,
      <<"bad","neun","bun","jeon","hwa","beon","ho">>,
      <<"bad","neun","bun","xu","pyeon","beon","ho">>,
      <<"bad","neun","bun","ju","so","(","jeon","che",",","bun","hal",")">>,
      <<"bae","song","me","se","ji","1">>,
      <<"xun","song","jang","beon","ho">>>>

\* The platforms in the order the program declares them.
Platforms == <<"coupang", "smartstore", "thirtymall">>

PLATFORM_SIGNATURES ==
    [coupang |->
        <<<<"no","chul","sang","pum","myeong">>,
          <<"no","chul","sang","pum","myeong","(","xob","syeon","myeong",")">>,
          <<"deung","rog","sang","pum","myeong">>,
          <<"su","chwi","xin","xi","reum">>,
          <<"ju","mun","beon","ho">>,
          <<"gyeol","je","xaeg">>,
          <<"gu","mae","su">>>>,
     smartstore |->
        <<<<"sang","pum","ju","mun","beon","ho">>,
          <<"su","chwi","xin","myeong">>,
          <<"bae","song","me","si","ji">>,
          <<"bae","song","me","se","ji">>,
          <<"xob","syeon","jeong","bo">>,
          <<"xu","pyeon","beon","ho">>>>,
     thirtymall |->
        <<<<"syo","ping","mol","gu","bun">>,
          <<"ju","mun","gu","bun">>,
          <<"ju","mun","me","mo">>,
          <<"xeob","mu","me","si","ji">>,
          <<"sang","pum","myeong">>,
          <<"xob","syeon","myeong",":","xob","syeon","gabs">>,
          <<"su","ryeong","ja","myeong">>,
          <<"su","ryeong","ja","xyeon","rag","cheo">>,
          <<"xu","pyeon","beon","ho">>,
          <<"ju","so">>>>]

\* CANDIDATES, an ordered dict, as the sequence of its items.
CANDIDATES ==
    <<[invoice_col |-> <<"go","gaeg","ju","mun","beon","ho">>,
      coupang |->
        <<<<"ju","mun","beon","ho">>,
          <<"go","gaeg","ju","mun","beon","ho">>,
          <<"o","r","d","e","r"," ","n","u","m","b","e","r">>,
          <<"o","r","d","e","r","n","o">>>>,
      smartstore |->
        <<<<"sang","pum","ju","mun","beon","ho">>,
          <<"sang","pum"," ","ju","mun","beon","ho">>,
          <<"ju","mun","beon","ho">>,
          <<"ju","mun","gwan","ri","beon","ho">>,
          <<"o","r","d","e","r"," ","n","o">>>>,
      thirtymall |->
        <<<<"ju","mun","beon","ho">>,
          <<"go","gaeg","ju","mun","beon","ho">>,
          <<"o","r","d","e","r"," ","n","o">>,
          <<"o","r","d","e","r","n","o">>>>],
      [invoice_col |-> <<"pum","mog","myeong">>,
      coupang |->
        <<<<"no","chul","sang","pum","myeong","(","xob","syeon","myeong",")">>,
          <<"no","chul","sang","pum","myeong">>,
          <<"deung","rog","sang","pum","myeong">>,
          <<"sang","pum","myeong">>>>,
      smartstore |->
        <<<<"sang","pum","myeong">>,
          <<"ju","mun","sang","pum","myeong">>,
          <<"xob","syeon","jeong","bo">>,
          <<"sang","pum","myeong","(","xob","syeon","po","ham",")">>,
          <<"sang","pum","myeong","/","xob","syeon">>>>,
      thirtymall |->
        <<<<"sang","pum","myeong">>,
          <<"xob","syeon","myeong",":","xob","syeon","gabs">>,
          <<"xob","syeon">>,
          <<"xob","syeon","jeong","bo">>>>],
      [invoice_col |-> <<"gi","ta","1">>,
      coupang |->
        <<<<"gyeol","je","xaeg">>,
          <<"gyeol","je","geum","xaeg">>,
          <<"sang","pum","gyeol","je","geum","xaeg">>,
          <<"p","a","y","m","e","n","t">>,
          <<"gyeol","je","geum">>>>,
      smartstore |->
        <<<<"gyeol","je","geum","xaeg">>,
          <<"chong","gyeol","je","geum","xaeg">>,
          <<"sang","pum","ju","mun","geum","xaeg">>,
          <<"pan","mae","geum","xaeg">>,
          <<"gyeol","je"," ","geum","xaeg">>,
          <<"ju","mun","geum","xaeg">>>>,
      thirtymall |->
        <<<<"pan","mae","ga","(","hal","xin","jeog","xyong","ga",")">>,
          <<"gyeol","je","geum","xaeg">>,
          <<"ju","mun","geum","xaeg">>,
          <<"chong","gyeol","je","geum","xaeg">>>>],
      [invoice_col |-> <<"nae","pum","su","ryang">>,
      coupang |->
        <<<<"gu","mae","su">>,
          <<"su","ryang">>,
          <<"gu","mae","su","ryang">>,
          <<"q","t","y">>,
          <<"su","ryang","(","gae",")">>>>,
      smartstore |->
        <<<<"su","ryang">>,
          <<"ju","mun","su","ryang">>,
          <<"gu","mae","su","ryang">>,
          <<"sang","pum","su","ryang">>,
          <<"q","t","y">>>>,
      thirtymall |->
        <<<<"su","ryang">>,
          <<"ju","mun","su","ryang">>,
          <<"q","t","y">>>>],
      [invoice_col |-> <<"bad","neun","bun","seong","myeong">>,
      coupang |->
        <<<<"su","chwi","xin","xi","reum">>,
          <<"su","chwi","xin">>,
          <<"bad","neun","bun">>,
          <<"su","ryeong","xin">>,
          <<"r","e","c","i","p","i","e","n","t">>>>,
      smartstore |->
        <<<<"su","chwi","xin","myeong">>,
          <<"su","chwi","xin"," ","xi","reum">>,
          <<"su","chwi","xin">>,
          <<"su","ryeong","xin">>,
          <<"bad","neun","sa","ram">>,
          <<"bad","neun","bun">>,
          <<"su","ha","xin","myeong">>>>,
      thirtymall |->
        <<<<"su","ryeong","ja","myeong">>,
          <<"su","chwi","xin","myeong">>,
          <<"su","chwi","xin">>,
          <<"su","ryeong","xin">>,
          <<"bad","neun","bun">>>>],
      [invoice_col |-> <<"bad","neun","bun","jeon","hwa","beon","ho">>,
      coupang |->
        <<<<"su","chwi","xin","xyeon","rag","cheo">>,
          <<"jeon","hwa","beon","ho">>,
          <<"su","chwi","xin","jeon","hwa","beon","ho">>,
          <<"hyu","dae","pon">>,
          <<"xyeon","rag","cheo">>>>,
      smartstore |->
        <<<<"su","chwi","xin","xyeon","rag","cheo","1">>,
          <<"su","chwi","xin","xyeon","rag","cheo","2">>,
          <<"su","chwi","xin","xyeon","rag","cheo">>,
          <<"su","chwi","xin"," ","hyu","dae","jeon","hwa">>,
          <<"su","chwi","xin","hyu","dae","jeon","hwa">>,
          <<"su","chwi","xin","jeon","hwa","beon","ho">>,
          <<"xyeon","rag","cheo">>,
          <<"hyu","dae","pon","beon","ho">>,
          <<"hyu","dae","jeon","hwa">>>>,
      thirtymall |->
        <<<<"su","ryeong","ja","xyeon","rag","cheo">>,
          <<"xyeon","rag","cheo">>,
          <<"hyu","dae","pon">>,
          <<"jeon","hwa","beon","ho">>>>],
      [invoice_col |-> <<"bad","neun","bun","xu","pyeon","beon","ho">>,
      coupang |->
        <<<<"xu","pyeon","beon","ho">>,
          <<"su","chwi","xin","xu","pyeon","beon","ho">>,
          <<"bae","song","ji","xu","pyeon","beon","ho">>,
          <<"z","i","p">>,
          <<"p","o","s","t","c","o","d","e">>>>,
      smartstore |->
        <<<<"su","chwi","xin","xu","pyeon","beon","ho">>,
          <<"xu","pyeon","beon","ho">>,
          <<"bae","song","ji","xu","pyeon","beon","ho">>,
          <<"su","chwi","xin"," ","xu","pyeon","beon","ho">>,
          <<"xu","pyeon"," ","beon","ho">>>>,
      thirtymall |->
        <<<<"xu","pyeon","beon","ho">>,
          <<"bae","song","ji","xu","pyeon","beon","ho">>,
          <<"su","chwi","xin","xu","pyeon","beon","ho">>>>],
      [invoice_col |-> <<"bad","neun","bun","ju","so","(","jeon","che",",","bun","hal",")">>,
      coupang |->
        <<<<"ju","so">>,
          <<"su","chwi","xin","ju","so">>,
          <<"bae","song","ji","ju","so">>,
          <<"do","ro","myeong","ju","so">>,
          <<"bad","neun","bun","ju","so">>,
          <<"ju","so","(","jeon","che",",","bun","hal",")">>>>,
      smartstore |->
        <<<<"su","chwi","xin","ju","so">>,
          <<"bae","song","ji","ju","so">>,
          <<"bae","song","ji">>,
          <<"ju","so">>,
          <<"su","chwi","xin","gi","bon","ju","so">>,
          <<"su","chwi","xin","sang","se","ju","so">>,
          <<"gi","bon","ju","so">>,
          <<"sang","se","ju","so">>,
          <<"do","ro","myeong","ju","so">>,
          <<"ji","beon","ju","so">>>>,
      thirtymall |->
        <<<<"ju","so">>,
          <<"bae","song","ji","ju","so">>,
          <<"su","chwi","xin","ju","so">>,
          <<"do","ro","myeong","ju","so">>,
          <<"ji","beon","ju","so">>,
          <<"sang","se","ju","so">>>>],
      [invoice_col |-> <<"bae","song","me","se","ji","1">>,
      coupang |->
        <<<<"bae","song","me","si","ji">>,
          <<"bae","song","me","se","ji">>,
          <<"xyo","cheong","sa","hang">>,
          <<"bae","song","xyo","cheong","sa","hang">>,
          <<"m","e","s","s","a","g","e">>>>,
      smartstore |->
        <<<<"bae","song","me","si","ji">>,
          <<"bae","song","me","se","ji">>,
          <<"bae","song"," ","xyo","cheong","sa","hang">>,
          <<"bae","song","xyo","cheong","sa","hang">>,
          <<"bae","song","me","mo">>,
          <<"xyo","cheong","sa","hang">>>>,
      thirtymall |->
        <<<<"bae","song","me","mo">>>>]>>

-----------------------------------------------------------------------------
(* DataFrames.                                                              *)

DataFrame(columns, rows) == [columns |-> columns, rows |-> rows]

\* len(df)
NRows(df) == Len(df.rows)

\* df.shape[1]
NCols(df) == Len(df.columns)

\* `name in df.columns`
HasColumn(df, name) == \E i \in 1..NCols(df) : df.columns[i] = name

ColumnIndex(df, name) == CHOOSE i \in 1..NCols(df) : df.columns[i] = name

\* df.iloc[:, j], j counted from 0.
iloc(df, j) == [r \in 1..NRows(df) |-> df.rows[r][j + 1]]

\* df[name]
Column(df, name) == iloc(df, ColumnIndex(df, name) - 1)

\* pd.Series([""] * n)
BlankSeries(n) == [r \in 1..n |-> Blank]

\* out[name] = series, for a series on out's index: the cells of column
\* `name` are replaced, the columns and their order stay; a name out does not
\* have becomes a new last column.
SetColumn(out, name, series) ==
    IF HasColumn(out, name)
    THEN DataFrame(out.columns,
                   [r \in 1..NRows(out) |->
                       [c \in 1..NCols(out) |->
                           IF out.columns[c] = name THEN series[r] ELSE out.rows[r][c]]])
    ELSE DataFrame(Append(out.columns, name),
                   [r \in 1..NRows(out) |-> Append(out.rows[r], series[r])])

\* The elements of q at their first occurrence: the keys of a dict built
\* from q, in the dict's order.
RECURSIVE DictKeys(_, _)
DictKeys(q, seen) ==
    IF q = <<>> THEN <<>>
    ELSE IF Head(q) \in seen THEN DictKeys(Tail(q), seen)
    ELSE <<Head(q)>> \o DictKeys(Tail(q), seen \cup {Head(q)})

-----------------------------------------------------------------------------
(* detect_platform: the platform classifier.                                *)

\* One keyword of score(keys): 2 for a header with its normal form, else 1
\* for a header that holds it or that it holds, else 0.
KeyScoreNorm(cols_norm, nk) ==
    IF nk \in cols_norm THEN 2
    ELSE IF \E c \in cols_norm :
                Truthy(nk) /\ (Contains(c, nk) \/ Contains(nk, c)) THEN 1
    ELSE 0

KeyScore(cols_norm, key) == KeyScoreNorm(cols_norm, norm(key))

RECURSIVE score(_, _)
score(cols_norm, keys) ==
    IF keys = <<>> THEN 0
    ELSE KeyScore(cols_norm, Head(keys)) + score(cols_norm, Tail(keys))

\* Lines 159-163: some cell of the mall column, cleaned and lower-cased,
\* holds "떠리몰" or "thirtymall".
SeriesContains(vals, pat) == \E r \in 1..Len(vals) : Contains(lower(vals[r].s), pat)

HasValueIn(df, mall_col) ==
    /\ mall_col # None
    /\ \/ SeriesContains(clean_series(Column(df, mall_col)), <<"tteo","ri","mol">>)
       \/ SeriesContains(clean_series(Column(df, mall_col)),
                         <<"t","h","i","r","t","y","m","a","l","l">>)

HasThirtymallValue(df) ==
    HasValueIn(df, find_col(df, <<<<"syo","ping","mol","gu","bun">>,
                                  <<"syo","ping","mol">>,
                                  <<"m","a","l","l">>,
                                  <<"s","h","o","p">>>>))

\* The three scores at line 165, the value bonus included.
ScoresOver(df, cols_norm) ==
    [coupang |-> score(cols_norm, PLATFORM_SIGNATURES.coupang),
     smartstore |-> score(cols_norm, PLATFORM_SIGNATURES.smartstore),
     thirtymall |-> score(cols_norm, PLATFORM_SIGNATURES.thirtymall)
                      + (IF HasThirtymallValue(df) THEN 3 ELSE 0)]

Scores(df) == ScoresOver(df, {norm(df.columns[i]) : i \in 1..NCols(df)})

\* max(scores, key=scores.get) taking the last of the largest, not the first.
ArgMax_Last(scores) ==
    Platforms[CHOOSE i \in 1..3 :
                 /\ \A j \in 1..3 : scores[Platforms[j]] <= scores[Platforms[i]]
                 /\ \A j \in (i + 1)..3 : scores[Platforms[j]] < scores[Platforms[i]]]

\* max(scores, key=scores.get): the first key, in the dict's order, whose
\* value is the largest.
ArgMax(scores) ==
    Platforms[CHOOSE i \in 1..3 :
                 /\ \A j \in 1..3 : scores[Platforms[j]] <= scores[Platforms[i]]
                 /\ \A j \in 1..(i - 1) : scores[Platforms[j]] < scores[Platforms[i]]]

\* Lines 165-169.
Decide(scores) ==
    IF scores.coupang = 0 /\ scores.smartstore = 0 /\ scores.thirtymall = 0
    THEN "unknown"
    ELSE ArgMax(scores)

detect_platform(df) == Decide(Scores(df))

-----------------------------------------------------------------------------
(* build_mapping: the field mapper.                                         *)

\* Python's `a or b` for values that are None or a str.
Or(a, b) == IF a # None /\ Truthy(a) THEN a ELSE b

\* The unknown platform's fallback with coupang tried first.
ResolveField_CoupangFirst(df, p_dict, plat) ==
    IF plat = "unknown"
    THEN Or(find_col(df, p_dict.coupang),
            Or(find_col(df, p_dict.smartstore), find_col(df, p_dict.thirtymall)))
    ELSE find_col(df, p_dict[plat])

\* Lines 232-239: the column of one invoice field.
ResolveField(df, p_dict, plat) ==
    IF plat = "unknown"
    THEN Or(find_col(df, p_dict.smartstore),
            Or(find_col(df, p_dict.coupang), find_col(df, p_dict.thirtymall)))
    ELSE find_col(df, p_dict[plat])

\* The mapping dict as the sequence of its items, in CANDIDATES' order.
build_mapping(df, plat) ==
    [f \in 1..Len(CANDIDATES) |->
        [invoice_col |-> CANDIDATES[f].invoice_col,
         col |-> ResolveField(df, CANDIDATES[f], plat)]]

-----------------------------------------------------------------------------
(* The field synthesizers.                                                  *)

\* str.replace(r"\s+", " ", regex=True): every run of whitespace becomes one
\* space.
RECURSIVE CollapseSpaces(_)
CollapseSpaces(s) ==
    IF s = <<>> THEN <<>>
    ELSE IF IsSpace(Head(s)) THEN <<" ">> \o CollapseSpaces(lstrip(s))
    ELSE <<Head(s)>> \o CollapseSpaces(Tail(s))

\* (a + " " + b).str.replace(r"\s+", " ", regex=True).str.strip(), for two
\* series of one length and index.
JoinSeries(a, b) ==
    [r \in 1..Len(a) |-> Str(strip(CollapseSpaces(a[r].s \o <<" ">> \o b[r].s)))]

\* The positional fallbacks: the columns Q, S, M and V, counted from 0.
COL_Q == 16
COL_S == 18
COL_M == 12
COL_V == 21

build_smartstore_item_name(order_df) ==
    LET product_col == find_col(order_df,
            <<<<"sang","pum","myeong">>,
              <<"ju","mun","sang","pum","myeong">>,
              <<"sang","pum","myeong","(","xob","syeon","po","ham",")">>,
              <<"sang","pum","myeong","/","xob","syeon">>>>)
        option_col == find_col(order_df,
            <<<<"xob","syeon","jeong","bo">>,
              <<"xob","syeon">>,
              <<"xob","syeon","myeong">>,
              <<"xob","syeon","nae","xyong">>>>)
        product == IF product_col # None
                   THEN clean_series(Column(order_df, product_col))
                   ELSE IF NCols(order_df) > COL_Q
                   THEN clean_series(iloc(order_df, COL_Q))
                   ELSE BlankSeries(NRows(order_df))
        option == IF option_col # None
                  THEN clean_series(Column(order_df, option_col))
                  ELSE IF NCols(order_df) > COL_S
                  THEN clean_series(iloc(order_df, COL_S))
                  ELSE BlankSeries(NRows(order_df))
    IN  JoinSeries(product, option)

build_coupang_item_name(order_df) ==
    LET col == find_col(order_df,
            <<<<"no","chul","sang","pum","myeong","(","xob","syeon","myeong",")">>,
              <<"no","chul","sang","pum","myeong">>,
              <<"no","chul"," ","sang","pum","myeong","(","xob","syeon","myeong",")">>,
              <<"no","chul"," ","sang","pum","myeong">>>>)
    IN  IF col # None THEN clean_series(Column(order_df, col))
        ELSE IF NCols(order_df) > COL_M THEN clean_series(iloc(order_df, COL_M))
        ELSE BlankSeries(NRows(order_df))

build_thirtymall_item_name(order_df) ==
    LET s_col == find_col(order_df, <<<<"sang","pum","myeong">>>>)
        v_col == find_col(order_df,
            <<<<"xob","syeon","myeong",":","xob","syeon","gabs">>,
              <<"xob","syeon","jeong","bo">>,
              <<"xob","syeon">>,
              <<"xob","syeon","myeong">>>>)
        s == IF s_col # None THEN Column(order_df, s_col)
             ELSE IF NCols(order_df) > COL_S THEN iloc(order_df, COL_S)
             ELSE BlankSeries(NRows(order_df))
        v == IF v_col # None THEN Column(order_df, v_col)
             ELSE IF NCols(order_df) > COL_V THEN iloc(order_df, COL_V)
             ELSE BlankSeries(NRows(order_df))
    IN  dedupe_merge_text(s, v)

build_smartstore_phone(order_df) ==
    LET c1 == find_col(order_df,
            <<<<"su","chwi","xin","xyeon","rag","cheo","1">>,
              <<"su","chwi","xin","xyeon","rag","cheo","(","1",")">>,
              <<"su","chwi","xin"," ","hyu","dae","jeon","hwa">>,
              <<"su","chwi","xin","hyu","dae","jeon","hwa">>>>)
        c2 == find_col(order_df,
            <<<<"su","chwi","xin","xyeon","rag","cheo","2">>,
              <<"su","chwi","xin","xyeon","rag","cheo","(","2",")">>>>)
        c == find_col(order_df,
            <<<<"su","chwi","xin","xyeon","rag","cheo">>,
              <<"su","chwi","xin","jeon","hwa","beon","ho">>,
              <<"xyeon","rag","cheo">>,
              <<"hyu","dae","pon","beon","ho">>,
              <<"hyu","dae","jeon","hwa">>>>)
    IN  IF c1 # None THEN clean_series(Column(order_df, c1))
        ELSE IF c2 # None THEN clean_series(Column(order_df, c2))
        ELSE IF c # None THEN clean_series(Column(order_df, c))
        ELSE BlankSeries(NRows(order_df))

build_smartstore_zip(order_df) ==
    LET z == find_col(order_df,
            <<<<"su","chwi","xin","xu","pyeon","beon","ho">>,
              <<"xu","pyeon","beon","ho">>,
              <<"bae","song","ji","xu","pyeon","beon","ho">>,
              <<"xu","pyeon"," ","beon","ho">>>>)
    IN  IF z = None THEN BlankSeries(NRows(order_df))
        ELSE clean_series(Column(order_df, z))

build_smartstore_address(order_df) ==
    LET base == find_col(order_df,
            <<<<"su","chwi","xin","gi","bon","ju","so">>,
              <<"gi","bon","ju","so">>,
              <<"do","ro","myeong","ju","so">>,
              <<"ji","beon","ju","so">>>>)
        detail == find_col(order_df,
            <<<<"su","chwi","xin","sang","se","ju","so">>,
              <<"sang","se","ju","so">>,
              <<"sang","se"," ","ju","so">>>>)
        addr == find_col(order_df,
            <<<<"su","chwi","xin","ju","so">>,
              <<"bae","song","ji","ju","so">>,
              <<"bae","song","ji">>,
              <<"ju","so">>>>)
    IN  IF base # None
        THEN IF detail # None
             THEN JoinSeries(clean_series(Column(order_df, base)),
                             clean_series(Column(order_df, detail)))
             ELSE clean_series(Column(order_df, base))
        ELSE IF addr = None THEN BlankSeries(NRows(order_df))
        ELSE clean_series(Column(order_df, addr))

-----------------------------------------------------------------------------
(* make_invoice_rows: the row builder.                                      *)

ITEM_NAME == <<"pum","mog","myeong">>
PHONE == <<"bad","neun","bun","jeon","hwa","beon","ho">>
ZIPCODE == <<"bad","neun","bun","xu","pyeon","beon","ho">>
ADDRESS == <<"bad","neun","bun","ju","so","(","jeon","che",",","bun","hal",")">>

\* Line 369: a DataFrame built from a dict of lists has the dict's keys as
\* its columns and the lists' length as its row count; built from the empty
\* dict it has no columns and no rows.
NewOut(template_columns, n) ==
    LET cols == DictKeys(template_columns, {})
    IN  DataFrame(cols,
                  IF cols = <<>> THEN <<>>
                  ELSE [r \in 1..n |-> [c \in 1..Len(cols) |-> Blank]])

\* Line 373 without `inv_col in out.columns`.
CopyMapped_AnyField(out, order_df, item) ==
    IF item.col # None /\ HasColumn(order_df, item.col)
    THEN SetColumn(out, item.invoice_col, Column(order_df, item.col))
    ELSE out

\* One turn of the loop of lines 372-374.
CopyMapped(out, order_df, item) ==
    IF /\ HasColumn(out, item.invoice_col)
       /\ item.col # None
       /\ HasColumn(order_df, item.col)
    THEN SetColumn(out, item.invoice_col, Column(order_df, item.col))
    ELSE out

RECURSIVE CopyAll(_, _, _)
CopyAll(out, order_df, mapping) ==
    IF mapping = <<>> THEN out
    ELSE CopyAll(CopyMapped(out, order_df, Head(mapping)), order_df, Tail(mapping))

\* Lines 377-383.
SetItemName(out, order_df, plat) ==
    IF ~HasColumn(out, ITEM_NAME) THEN out
    ELSE IF plat = "smartstore"
    THEN SetColumn(out, ITEM_NAME, build_smartstore_item_name(order_df))
    ELSE IF plat = "coupang"
    THEN SetColumn(out, ITEM_NAME, build_coupang_item_name(order_df))
    ELSE IF plat = "thirtymall"
    THEN SetColumn(out, ITEM_NAME, build_thirtymall_item_name(order_df))
    ELSE out

\* Lines 386-392.
SetRecipient(out, order_df, plat) ==
    IF plat # "smartstore" THEN out
    ELSE LET o1 == IF HasColumn(out, PHONE)
                   THEN SetColumn(out, PHONE, build_smartstore_phone(order_df))
                   ELSE out
             o2 == IF HasColumn(o1, ZIPCODE)
                   THEN SetColumn(o1, ZIPCODE, build_smartstore_zip(order_df))
                   ELSE o1
         IN  IF HasColumn(o2, ADDRESS)
             THEN SetColumn(o2, ADDRESS, build_smartstore_address(order_df))
             ELSE o2

make_invoice_rows(template_columns, order_df, mapping, plat) ==
    SetRecipient(
        SetItemName(
            CopyAll(NewOut(template_columns, NRows(order_df)), order_df, mapping),
            order_df, plat),
        order_df, plat)

-----------------------------------------------------------------------------
(* The batch driver (lines 422-485).                                        *)

\* What pd.read_excel makes of an upload: a table, or an exception.
Read(df) == [ok |-> TRUE, df |-> df]
Raises == [ok |-> FALSE, df |-> DataFrame(<<>>, <<>>)]

\* An uploaded order file is its name and what each of the two ways of
\* reading it gives: as it is with the first row as header (plain), and
\* decrypted with SMARTSTORE_PASSWORD with the second row as header (smart).
OrderFile(name, plain, smart) == [name |-> name, plain |-> plain, smart |-> smart]

read_excel_safely(uploaded_file, platform_hint) ==
    IF platform_hint = "smartstore" THEN uploaded_file.smart ELSE uploaded_file.plain

\* Lines 425-430.
TemplateColumns(upload) ==
    IF upload.kind = "none" THEN DEFAULT_TEMPLATE_COLUMNS ELSE upload.columns

platform_label(plat) ==
    CASE plat = "coupang" -> <<"ku","pang">>
      [] plat = "smartstore" -> <<"seu","ma","teu","seu","to","xeo">>
      [] plat = "thirtymall" ->
            <<"t","h","i","r","t","y","m","a","l","l","(","tteo","ri","mol",")">>
      [] OTHER -> <<"xal","su","xeobs","xeum">>

\* sum(1 for v in mapping.values() if v is not None)
ok_cnt(mapping) == Cardinality({f \in 1..Len(mapping) : mapping[f].col # None})

\* The columns of pd.concat's result: every frame's columns, each where it
\* first appears.
RECURSIVE AllColumns(_)
AllColumns(frames) ==
    IF frames = <<>> THEN <<>> ELSE frames[1].columns \o AllColumns(Tail(frames))

\* One frame's rows on the columns `cols`: a column the frame lacks is NaN.
Reindexed(frame, cols) ==
    [r \in 1..NRows(frame) |->
        [c \in 1..Len(cols) |->
            IF HasColumn(frame, cols[c])
            THEN frame.rows[r][ColumnIndex(frame, cols[c])]
            ELSE NaN]]

RECURSIVE StackRows(_, _)
StackRows(frames, cols) ==
    IF frames = <<>> THEN <<>>
    ELSE Reindexed(frames[1], cols) \o StackRows(Tail(frames), cols)

\* pd.concat(frames, ignore_index=True).
concat(frames) ==
    DataFrame(DictKeys(AllColumns(frames), {}),
              StackRows(frames, DictKeys(AllColumns(frames), {})))

\* The except clause of lines 484-485: st.error, and the script ends.
ShowError ==
    /\ shown' = shown \cup {"error"}
    /\ pc' = "done"

\* Line 422 with no order file uploaded: the script renders nothing more.
NoFiles ==
    /\ pc = "start"
    /\ uploaded_files = <<>>
    /\ pc' = "done"
    /\ UNCHANGED <<harness, template_upload, uploaded_files, k, platform,
                   all_out_rows, report_rows, merged_out, shown>>

\* Lines 422-433: the template is loaded and the two lists start empty.
LoadTemplate ==
    /\ pc = "start"
    /\ uploaded_files # <<>>
    /\ \/ /\ template_upload.kind = "unreadable"
          /\ ShowError
       \/ /\ template_upload.kind # "unreadable"
          /\ pc' = "detect"
          /\ UNCHANGED shown
    /\ UNCHANGED <<harness, template_upload, uploaded_files, k, platform,
                   all_out_rows, report_rows, merged_out>>

\* Lines 437-443 for the file the loop is at: the plain read and its
\* platform; if that raises, the smartstore read and its platform.
Detect ==
    /\ pc = "detect"
    /\ LET uf == uploaded_files[k + 1]
       IN  \/ /\ read_excel_safely(uf, "none").ok
              /\ platform' = detect_platform(read_excel_safely(uf, "none").df)
              /\ pc' = "convert"
              /\ UNCHANGED shown
           \/ /\ ~read_excel_safely(uf, "none").ok
              /\ read_excel_safely(uf, "smartstore").ok
              /\ platform' = detect_platform(read_excel_safely(uf, "smartstore").df)
              /\ pc' = "convert"
              /\ UNCHANGED shown
           \/ /\ ~read_excel_safely(uf, "none").ok
              /\ ~read_excel_safely(uf, "smartstore").ok
              /\ ShowError
              /\ UNCHANGED platform
    /\ UNCHANGED <<harness, template_upload, uploaded_files, k,
                   all_out_rows, report_rows, merged_out>>

\* The read of lines 446-449.
OrderRead(uf, plat) ==
    IF plat = "smartstore" THEN read_excel_safely(uf, "smartstore")
    ELSE read_excel_safely(uf, "none")

\* Lines 451-461 for one file read as order_df.
ReportRow(uf, order_df, plat) ==
    [name |-> uf.name,
     platform |-> platform_label(plat),
     ok_cnt |-> ok_cnt(build_mapping(order_df, plat)),
     total |-> Len(build_mapping(order_df, plat)),
     rows |-> NRows(order_df)]

OutRows(template_columns, order_df, plat) ==
    make_invoice_rows(template_columns, order_df, build_mapping(order_df, plat), plat)

\* Convert with a file that cannot be read left out of the batch.
Convert_SkipsUnreadable ==
    /\ pc = "convert"
    /\ LET uf == uploaded_files[k + 1]
       IN  \/ /\ OrderRead(uf, platform).ok
              /\ all_out_rows' = Append(all_out_rows,
                    OutRows(TemplateColumns(template_upload), OrderRead(uf, platform).df, platform))
              /\ report_rows' = Append(report_rows,
                    ReportRow(uf, OrderRead(uf, platform).df, platform))
           \/ /\ ~OrderRead(uf, platform).ok
              /\ UNCHANGED <<all_out_rows, report_rows>>
    /\ k' = k + 1
    /\ pc' = IF k + 1 = Len(uploaded_files) THEN "concat" ELSE "detect"
    /\ UNCHANGED <<harness, template_upload, uploaded_files, platform, merged_out, shown>>

\* Lines 446-461 for the file the loop is at: the read for its platform, the
\* mapping, the output rows and the report row; then the next file, or the
\* end of the loop.
Convert ==
    /\ pc = "convert"
    /\ LET uf == uploaded_files[k + 1]
       IN  \/ /\ OrderRead(uf, platform).ok
              /\ all_out_rows' = Append(all_out_rows,
                    OutRows(TemplateColumns(template_upload), OrderRead(uf, platform).df, platform))
              /\ report_rows' = Append(report_rows,
                    ReportRow(uf, OrderRead(uf, platform).df, platform))
              /\ k' = k + 1
              /\ pc' = IF k + 1 = Len(uploaded_files) THEN "concat" ELSE "detect"
              /\ UNCHANGED shown
           \/ /\ ~OrderRead(uf, platform).ok
              /\ ShowError
              /\ UNCHANGED <<all_out_rows, report_rows, k>>
    /\ UNCHANGED <<harness, template_upload, uploaded_files, platform, merged_out>>

\* Lines 463-466: the merged table and the summary table.
Concat ==
    /\ pc = "concat"
    /\ merged_out' = <<concat(all_out_rows)>>
    /\ shown' = shown \cup {"summary"}
    /\ pc' = "write"
    /\ UNCHANGED <<harness, template_upload, uploaded_files, k, platform,
                   all_out_rows, report_rows>>

\* Lines 468-482: the workbook is written and offered; a write that raises
\* goes to the except clause.
Offer ==
    /\ pc = "write"
    /\ \/ /\ shown' = shown \cup {"success", "download_button"}
          /\ pc' = "done"
       \/ ShowError
    /\ UNCHANGED <<harness, template_upload, uploaded_files, k, platform,
                   all_out_rows, report_rows, merged_out>>

-----------------------------------------------------------------------------
(* The harness: a function of the program applied to inputs drawn from      *)
(* bounded sets.                                                            *)

MaxLen == 4

NormAlphabet == {"a", "B", " ", "-", "mid"}

\* What a file_uploader holds: nothing, or an .xlsx file.  A template file
\* is what pd.read_excel makes of it: a header row, or an exception.
NoUpload == [kind |-> "none", columns |-> <<>>]
TemplateFile(columns) == [kind |-> "xlsx", columns |-> columns]
UnreadableTemplate == [kind |-> "unreadable", columns |-> <<>>]

DriverIdle ==
    /\ template_upload = NoUpload
    /\ uploaded_files = <<>>
    /\ pc = "idle"
    /\ k = 0
    /\ platform = "none"
    /\ all_out_rows = <<>>
    /\ report_rows = <<>>
    /\ merged_out = <<>>
    /\ shown = {}

HarnessIdle ==
    /\ fn = "idle"
    /\ args = <<>>
    /\ ret = <<>>

InitNorm ==
    /\ fn = "idle"
    /\ args \in StringsUpTo(NormAlphabet, MaxLen) \cup {None}
    /\ ret = <<>>
    /\ DriverIdle

\* norm(s), and norm of its result.
CallNorm ==
    /\ fn = "idle"
    /\ fn' = "norm"
    /\ ret' = <<norm(args), norm(norm(args))>>
    /\ UNCHANGED <<args, driver>>

SpecNorm == InitNorm /\ [][CallNorm]_vars

\* C6: norm is idempotent: for every string s, and for None,
\* norm(norm(s)) = norm(s).
C6_NormIdempotent == fn = "norm" => ret[2] = ret[1]

\* C6's case: norm has been applied to a string it changes (it holds
\* whitespace inside, punctuation and an upper-case letter).
C6_Witness ==
    /\ fn = "norm"
    /\ args # None
    /\ \E i, j, l \in 1..Len(args) :
          /\ 1 < i /\ i < Len(args) /\ IsSpace(args[i])
          /\ args[j] \in PunctChars
          /\ args[l] = "B"
    /\ ret[1] = <<"b">>

-----------------------------------------------------------------------------
(* find_col applied to bounded header lists and candidate lists.            *)

MaxCols == 2
MaxCands == 2

\* Headers: two with one normal form, one that normalises to "", one that
\* holds another, one with inner whitespace.
FindColHeaders ==
    {<<"a">>, <<"A", "-">>, <<"a", "b">>, <<"b", " ", "c">>, <<"-">>, <<"c">>}

FindColCandidates ==
    {<<"a">>, <<"A">>, <<"b", "c">>, <<"b">>, <<>>, <<"(", ")">>, <<"a", "b", "c">>}

\* The sequences over S of length at most n.
SeqsUpTo(S, n) == UNION {[1..m -> S] : m \in 0..n}

\* Those without a repeated element: a header row as read_excel returns it.
DistinctSeqsUpTo(S, n) ==
    {q \in SeqsUpTo(S, n) : \A i, j \in 1..Len(q) : q[i] = q[j] => i = j}

InitFindCol ==
    /\ fn = "idle"
    /\ args \in [df : [columns : DistinctSeqsUpTo(FindColHeaders, MaxCols),
                       rows : {<<>>}],
                 candidates : SeqsUpTo(FindColCandidates, MaxCands)]
    /\ ret = <<>>
    /\ DriverIdle

CallFindCol ==
    /\ fn = "idle"
    /\ fn' = "find_col"
    /\ ret' = find_col(args.df, args.candidates)
    /\ UNCHANGED <<args, driver>>

SpecFindCol == InitFindCol /\ [][CallFindCol]_vars

\* Candidate j's normal form is the normal form of some header of H.
ExactAt(H, C, j) == \E i \in 1..Len(H) : norm(H[i]) = norm(C[j])

\* C1: when some candidate's normal form equals a header's normal form,
\* find_col returns the header that the first such candidate (in the
\* candidates' order) matches exactly: a header of the table with that
\* candidate's normal form (the last one, when several headers share it),
\* whatever any header matches by containment.
C1_ExactMatchPriority ==
    fn = "find_col" =>
        LET H == args.df.columns
            C == args.candidates
        IN  \A j \in 1..Len(C) :
                (ExactAt(H, C, j) /\ \A j2 \in 1..(j - 1) : ~ExactAt(H, C, j2))
                => \E i \in 1..Len(H) :
                      /\ ret = H[i]
                      /\ norm(H[i]) = norm(C[j])
                      /\ \A i2 \in (i + 1)..Len(H) : norm(H[i2]) # norm(C[j])

\* C1's case: the second candidate matches the second header exactly while
\* the first candidate matches only the first header, and that by
\* containment; find_col returned the second header.
C1_Witness ==
    /\ fn = "find_col"
    /\ Len(args.df.columns) = 2 /\ Len(args.candidates) = 2
    /\ ~ExactAt(args.df.columns, args.candidates, 1)
    /\ Truthy(norm(args.df.columns[1]))
    /\ PartialMatch(norm(args.df.columns[1]), norm(args.candidates[1]))
    /\ Truthy(norm(args.candidates[2]))
    /\ norm(args.df.columns[2]) = norm(args.candidates[2])
    /\ ret = args.df.columns[2]

-----------------------------------------------------------------------------
(* dedupe_merge_text applied to two one-row series.                         *)

MaxMergeLen == 3

MergeCells ==
    {Str(s) : s \in StringsUpTo({"a", "b", " "}, MaxMergeLen)}
        \cup {Str(<<"b", " ", "c">>), Str(<<"n", "a", "n">>), NaN}

InitMerge ==
    /\ fn = "idle"
    /\ args \in [a : MergeCells, b : MergeCells]
    /\ ret = <<>>
    /\ DriverIdle

CallMerge ==
    /\ fn = "idle"
    /\ fn' = "dedupe_merge_text"
    /\ ret' = dedupe_merge_text(<<args.a>>, <<args.b>>)
    /\ UNCHANGED <<args, driver>>

SpecMerge == InitMerge /\ [][CallMerge]_vars

\* The place of token t's first occurrence in the token list T.
FirstAt(T, t) == CHOOSE i \in 1..Len(T) : T[i] = t /\ \A j \in 1..(i - 1) : T[j] # t

\* r is tokens joined by single spaces: no other whitespace, none at either
\* end, no two in a row.
SingleSpaced(r) ==
    \A i \in 1..Len(r) :
        IsSpace(r[i]) => /\ r[i] = " "
                         /\ 1 < i /\ i < Len(r)
                         /\ ~IsSpace(r[i + 1])

\* C5: for the two per-row strings x and y that dedupe_merge_text hands to
\* merge_one, the result is: empty if both are empty; the other if one is
\* empty; x if x = y; the longer if one holds the other; otherwise the
\* whitespace tokens of x then of y, each kept at its first occurrence only,
\* joined by single spaces.  So merge(x, x) = x, merge(x, "") = x and
\* merge("a b", "b c") = "a b c".
C5_DedupeMerge ==
    fn = "dedupe_merge_text" =>
        LET x == clean_cell(args.a).s
            y == clean_cell(args.b).s
            r == ret[1].s
            T == split(x) \o split(y)
            R == split(r)
        IN  /\ Len(ret) = 1 /\ ret[1].k = "str"
            /\ (x = <<>> /\ y = <<>>) => r = <<>>
            /\ (x = <<>> /\ y # <<>>) => r = y
            /\ (x # <<>> /\ y = <<>>) => r = x
            /\ x = y => r = x
            /\ (x # <<>> /\ y # <<>> /\ x # y /\ Contains(y, x)) => r = y
            /\ (x # <<>> /\ y # <<>> /\ x # y /\ Contains(x, y)) => r = x
            /\ (x # <<>> /\ y # <<>> /\ ~Contains(y, x) /\ ~Contains(x, y)) =>
                  /\ Range(R) = Range(T)
                  /\ \A i, j \in 1..Len(R) :
                        i < j => FirstAt(T, R[i]) < FirstAt(T, R[j])
                  /\ SingleSpaced(r)
            /\ (x = <<"a", " ", "b">> /\ y = <<"b", " ", "c">>) =>
                  r = <<"a", " ", "b", " ", "c">>

\* C5's case: the spec's own example, merge("a b", "b c") = "a b c": neither
\* string holds the other and the token b is repeated.
C5_Witness ==
    /\ fn = "dedupe_merge_text"
    /\ args.a = Str(<<"a", " ", "b">>)
    /\ args.b = Str(<<"b", " ", "c">>)
    /\ ret = <<Str(<<"a", " ", "b", " ", "c">>)>>

-----------------------------------------------------------------------------
(* detect_platform applied to bounded tables.                               *)

MaxDetectCols == 2
MaxDetectRows == 1

\* "주문번호", "우편번호", "수취인", "쇼핑몰구분", "Mall", "비고": headers that
\* score for two platforms at once, for one, for the value bonus only and
\* for none.
DetectHeaders ==
    {<<"ju","mun","beon","ho">>, <<"xu","pyeon","beon","ho">>, <<"su","chwi","xin">>,
     <<"syo","ping","mol","gu","bun">>, <<"M","a","l","l">>, <<"bi","go">>}

\* "떠리몰 특가", "ThirtyMall" and a missing cell.
DetectCells ==
    {Str(<<"tteo","ri","mol"," ","teug","ga">>),
     Str(<<"T","h","i","r","t","y","M","a","l","l">>),
     NaN}

\* The tables with the given header row and at most n rows of the given cells.
TablesOver(columns, cells, n) ==
    {DataFrame(columns, rows) : rows \in SeqsUpTo([1..Len(columns) -> cells], n)}

InitDetect ==
    /\ fn = "idle"
    /\ \E columns \in DistinctSeqsUpTo(DetectHeaders, MaxDetectCols) :
          args \in TablesOver(columns, DetectCells, MaxDetectRows)
    /\ ret = <<>>
    /\ DriverIdle

CallDetect ==
    /\ fn = "idle"
    /\ fn' = "detect_platform"
    /\ ret' = detect_platform(args)
    /\ UNCHANGED <<args, driver>>

SpecDetect == InitDetect /\ [][CallDetect]_vars

C2_Decision(sc, result) ==
    LET P == {"coupang", "smartstore", "thirtymall"}
        Rank(p) == CHOOSE i \in 1..3 : Platforms[i] = p
    IN  /\ result = "unknown" <=> \A p \in P : sc[p] = 0
        /\ result # "unknown" =>
              /\ result \in P
              /\ \A p \in P : sc[p] <= sc[result]
              /\ \A p \in P : sc[p] = sc[result] => Rank(result) <= Rank(p)

\* C2: detect_platform returns "unknown" exactly when the coupang,
\* smartstore and thirtymall scores (thirtymall's with its +3 value bonus)
\* are all 0; otherwise it returns a platform whose score is the largest,
\* and of several such platforms the first in the order coupang,
\* smartstore, thirtymall.
C2_DetectDecision == fn = "detect_platform" => C2_Decision(Scores(args), ret)

\* C2's case: smartstore and thirtymall share the largest score, which is
\* not 0, and detect_platform returned smartstore, declared before thirtymall.
C2_Witness ==
    /\ fn = "detect_platform"
    /\ Scores(args).smartstore = Scores(args).thirtymall
    /\ Scores(args).smartstore > Scores(args).coupang
    /\ Scores(args).smartstore > 0
    /\ ret = "smartstore"

-----------------------------------------------------------------------------
(* build_mapping applied to bounded header rows and every platform.         *)

MaxMapCols == 2

\* "주문번호", "결제액", "결제금액", "판매가(할인적용가)", "수취인명", "상품명",
\* "우편번호", "비고": headers that the three platforms' candidate lists
\* resolve differently, and one that none resolves.
MapHeaders ==
    {<<"ju","mun","beon","ho">>, <<"gyeol","je","xaeg">>, <<"gyeol","je","geum","xaeg">>,
     <<"pan","mae","ga","(","hal","xin","jeog","xyong","ga",")">>,
     <<"su","chwi","xin","myeong">>, <<"sang","pum","myeong">>,
     <<"xu","pyeon","beon","ho">>, <<"bi","go">>}

InitMapping ==
    /\ fn = "idle"
    /\ args \in [df : [columns : DistinctSeqsUpTo(MapHeaders, MaxMapCols), rows : {<<>>}],
                 platform : {"coupang", "smartstore", "thirtymall", "unknown"}]
    /\ ret = <<>>
    /\ DriverIdle

CallMapping ==
    /\ fn = "idle"
    /\ fn' = "build_mapping"
    /\ ret' = build_mapping(args.df, args.platform)
    /\ UNCHANGED <<args, driver>>

SpecMapping == InitMapping /\ [][CallMapping]_vars

\* The first of a, b, c that is not None (None if all are).
FirstPresent(a, b, c) == IF a # None THEN a ELSE IF b # None THEN b ELSE c

C10_Field(df, plat, p_dict, col) ==
    /\ plat = "unknown" =>
          col = FirstPresent(find_col(df, p_dict.smartstore),
                             find_col(df, p_dict.coupang),
                             find_col(df, p_dict.thirtymall))
    /\ plat # "unknown" => col = find_col(df, p_dict[plat])

\* C10: for the platform unknown, build_mapping maps each field of
\* CANDIDATES to the first result that is not None among find_col with the
\* smartstore list, with the coupang list and with the thirtymall list
\* (None if all three are None); for a known platform, to find_col with
\* that platform's list.
C10_MappingFallback ==
    fn = "build_mapping" =>
        /\ Len(ret) = Len(CANDIDATES)
        /\ \A f \in 1..Len(CANDIDATES) :
              /\ ret[f].invoice_col = CANDIDATES[f].invoice_col
              /\ C10_Field(args.df, args.platform, CANDIDATES[f], ret[f].col)

\* C10's case: the platform is unknown, and of some field the smartstore
\* list resolves nothing while the coupang and the thirtymall lists resolve
\* different columns; the field is mapped to the coupang list's.
C10_Witness ==
    /\ fn = "build_mapping"
    /\ args.platform = "unknown"
    /\ \E f \in 1..Len(CANDIDATES) :
          /\ find_col(args.df, CANDIDATES[f].smartstore) = None
          /\ find_col(args.df, CANDIDATES[f].coupang) # None
          /\ find_col(args.df, CANDIDATES[f].thirtymall) # None
          /\ find_col(args.df, CANDIDATES[f].thirtymall)
                # find_col(args.df, CANDIDATES[f].coupang)
          /\ ret[f].col = find_col(args.df, CANDIDATES[f].coupang)

-----------------------------------------------------------------------------
(* The batch: bounded uploads run through the driver.                       *)

MaxFiles == 2

\* Order tables.  Headers: "주문번호", "수취인이름"; "상품주문번호", "상품명",
\* "수취인연락처1"; "쇼핑몰구분", "상품명", "옵션명:옵션값"; "수량", "비고".
\* Cells: numbers, texts and missing cells.
CoupangTable ==
    DataFrame(<<<<"ju","mun","beon","ho">>, <<"su","chwi","xin","xi","reum">>>>,
              <<<<Num(<<"7">>), NaN>>,
                <<Num(<<"8">>), Str(<<"k","i","m">>)>>>>)

SmartstoreTable ==
    DataFrame(<<<<"sang","pum","ju","mun","beon","ho">>, <<"sang","pum","myeong">>,
                <<"su","chwi","xin","xyeon","rag","cheo","1">>>>,
              <<<<Num(<<"9">>), Str(<<"t","e","a">>), Str(<<" ","0","1","0">>)>>>>)

ThirtymallTable ==
    DataFrame(<<<<"syo","ping","mol","gu","bun">>, <<"sang","pum","myeong">>,
                <<"xob","syeon","myeong",":","xob","syeon","gabs">>>>,
              <<<<Str(<<"tteo","ri","mol">>), Str(<<"a"," ","b">>), Str(<<"b"," ","c">>)>>>>)

UnknownTable ==
    DataFrame(<<<<"su","ryang">>, <<"bi","go">>>>,
              <<<<Num(<<"2">>), NaN>>>>)

\* A header row and no order.
EmptyTable ==
    DataFrame(<<<<"ju","mun","beon","ho">>, <<"su","chwi","xin","xi","reum">>>>, <<>>)

\* SmartstoreTable's sheet read with its second row as header.
ShiftedTable ==
    DataFrame(<<<<"9">>, <<"t","e","a">>, <<" ","0","1","0">>>>, <<>>)

\* The uploads: plain files of each platform and of none, protected files
\* (the plain read raises) that hold a smartstore table and a coupang table,
\* a plain file with smartstore headers, a file with no order and a file
\* that cannot be read at all.
OrderFiles ==
    {OrderFile("coupang.xlsx", Read(CoupangTable), Raises),
     OrderFile("thirtymall.xlsx", Read(ThirtymallTable), Raises),
     OrderFile("other.xlsx", Read(UnknownTable), Raises),
     OrderFile("empty.xlsx", Read(EmptyTable), Raises),
     OrderFile("smartstore.xlsx", Raises, Read(SmartstoreTable)),
     OrderFile("protected.xlsx", Raises, Read(CoupangTable)),
     OrderFile("smartstore_plain.xlsx", Read(SmartstoreTable), Read(ShiftedTable)),
     OrderFile("broken.xlsx", Raises, Raises)}

\* The template uploads: none (the default template), a template of
\* "품목명", "고객주문번호", "메모", "받는분전화번호", a template with an empty
\* header row, and a file read_excel cannot read.
TemplateUploads ==
    {NoUpload,
     TemplateFile(<<<<"pum","mog","myeong">>, <<"go","gaeg","ju","mun","beon","ho">>,
                    <<"me","mo">>, <<"bad","neun","bun","jeon","hwa","beon","ho">>>>),
     TemplateFile(<<>>),
     UnreadableTemplate}

Init ==
    /\ HarnessIdle
    /\ template_upload \in TemplateUploads
    /\ uploaded_files \in SeqsUpTo(OrderFiles, MaxFiles)
    /\ pc = "start"
    /\ k = 0
    /\ platform = "none"
    /\ all_out_rows = <<>>
    /\ report_rows = <<>>
    /\ merged_out = <<>>
    /\ shown = {}

Next == NoFiles \/ LoadTemplate \/ Detect \/ Convert \/ Concat \/ Offer

Spec == Init /\ [][Next]_vars

-----------------------------------------------------------------------------
(* The batch's claims.                                                      *)

KnownPlatforms == {"coupang", "smartstore", "thirtymall"}

\* The platform the loop found for the i-th file it finished, read back from
\* the label of its report row.
PlatformOf(i) ==
    CHOOSE plat \in KnownPlatforms \cup {"unknown"} :
        platform_label(plat) = report_rows[i].platform

\* The table the i-th finished file was converted from.
SourceOf(i) == OrderRead(uploaded_files[i], PlatformOf(i)).df

ConvertedFrom(out, report, uf, template_columns) ==
    \E plat \in KnownPlatforms \cup {"unknown"} :
        /\ OrderRead(uf, plat).ok
        /\ report = ReportRow(uf, OrderRead(uf, plat).df, plat)
        /\ out = OutRows(template_columns, OrderRead(uf, plat).df, plat)

RECURSIVE SumRows(_)
SumRows(reports) ==
    IF reports = <<>> THEN 0 ELSE reports[1].rows + SumRows(Tail(reports))

RECURSIVE RowsInOrder(_)
RowsInOrder(frames) ==
    IF frames = <<>> THEN <<>> ELSE frames[1].rows \o RowsInOrder(Tail(frames))

\* C4: the output table of every file has as many rows as the table the
\* file was converted from (len(order_df), which the report row records),
\* and the merged table has the sum of those row counts, the files' rows
\* standing in upload order.
C4_RowCount ==
    /\ \A i \in 1..Len(all_out_rows) :
          NRows(all_out_rows[i]) = report_rows[i].rows
    /\ merged_out # <<>> =>
          /\ NRows(merged_out[1]) = SumRows(report_rows)
          /\ merged_out[1].rows = RowsInOrder(all_out_rows)

\* The file the loop is at can only be read the smartstore way.
NeedsRetry(uf) == ~uf.plain.ok /\ uf.smart.ok

\* C8: a file whose plain read raises while its smartstore read succeeds is
\* converted from the table of the smartstore read, whatever platform that
\* table is classified as, and the batch does not end in the error on it.
C8_DecodeRecovered ==
    /\ \A i \in 1..Len(all_out_rows) :
          NeedsRetry(uploaded_files[i]) =>
              all_out_rows[i] = OutRows(TemplateColumns(template_upload),
                                        uploaded_files[i].smart.df,
                                        detect_platform(uploaded_files[i].smart.df))
    /\ (pc = "done" /\ "error" \in shown /\ template_upload.kind # "unreadable"
           /\ k < Len(uploaded_files)) =>
          ~NeedsRetry(uploaded_files[k + 1])

\* A source cell coerced to text: a missing cell is the empty string.
AsText(cell) == IF cell.k = "nan" THEN Blank ELSE Str(cell.s)

\* The platform's synthesizers overwrite the field.
Synthesized(field, plat) ==
    \/ field = ITEM_NAME /\ plat \in KnownPlatforms
    \/ field \in {PHONE, ZIPCODE, ADDRESS} /\ plat = "smartstore"

\* The source column the mapping gives the field, None if it gives none.
MappedColumn(mapping, field) ==
    IF \E f \in 1..Len(mapping) : mapping[f].invoice_col = field
    THEN mapping[CHOOSE f \in 1..Len(mapping) : mapping[f].invoice_col = field].col
    ELSE None

C9_Table(out, src, mapping, plat) ==
    \A c \in 1..NCols(out) :
        ~Synthesized(out.columns[c], plat) =>
            \A r \in 1..NRows(out) :
                out.rows[r][c] =
                    IF MappedColumn(mapping, out.columns[c]) = None THEN Blank
                    ELSE AsText(Column(src, MappedColumn(mapping, out.columns[c]))[r])

\* C9: in the table make_invoice_rows returns, every cell of a field that
\* has a mapped source column and no synthesizer is the source cell coerced
\* to text, a missing source cell being the empty string; every cell of a
\* field with no mapped column and no synthesizer is the empty string.
C9_MappedCopy ==
    \A i \in 1..Len(all_out_rows) :
        C9_Table(all_out_rows[i], SourceOf(i),
                 build_mapping(SourceOf(i), PlatformOf(i)), PlatformOf(i))

=============================================================================
